---- MODULE Spec2Model ----
(***************************************************************************)
(* Model of the text-to-speech service: the Text Normalizer               *)
(* (utils/text_processor.py), the Speech Chunker and the Audio Exporter    *)
(* (utils/tts_engine.py).                                                  *)
(*                                                                         *)
(* A Python str is a sequence of one-character strings.  A Python value    *)
(* that may be None, a str or an int is a record [kind, s, n].  A call     *)
(* that may raise returns a record [exc, val].                             *)
(***************************************************************************)
EXTENDS Integers, Sequences, FiniteSets, TLC

VARIABLES
    text,       \* the argument `text` of the call under way
    call,       \* the operation called and its numeric arguments
    ret,        \* what the call returned or raised
    pc,         \* position of the exporter pipeline (text_to_speech_file)
    req,        \* its inputs: requested path, waveform, environment
    audio,      \* the waveform as save_audio holds it (after flatten/convert)
    out_path,   \* save_audio's local output_path
    fs,         \* the files that exist: path -> written samples
    temp_path,  \* the temporary WAV of the MP3 branch (NoPath when none created)
    result,     \* what save_audio / text_to_speech_file returned or raised
    speech,     \* generate_speech's locals: text, chunks, audio_chunks
    model_calls,\* the calls of the synthesis capability made so far, in order
    tts_engine, \* app.py's global: None (0) or the TTSEngine instance
    loads,      \* how many times a TTSEngine was constructed (the model loaded)
    handlers,   \* the requests being handled: thread -> its handler's locals
    audio_dir,  \* the files of AUDIO_OUTPUT_DIR: name -> past retention or not
    config      \* app.config and the import-time environment

vars == <<text, call, ret, pc, req, audio, out_path, fs, temp_path, result,
          speech, model_calls, tts_engine, loads, handlers, audio_dir, config>>

textVars == <<text, call, ret>>
saveVars == <<pc, req, audio, out_path, fs, temp_path, result>>
speechVars == <<speech, model_calls>>
appVars == <<tts_engine, loads, handlers, audio_dir, config>>

----------------------------------------------------------------------------
(* Bounds of the model.                                                    *)

\* longest str drawn over Alphabet for the normalizer's operations
MaxTextLen == 4
\* largest max_length / min_length argument tried
MaxLimit == 8
\* most tokens of AbbrevTokens in a text given to expand_abbreviations
MaxTokens == 3
\* longest str drawn over SplitAlphabet for split_text
MaxSplitLen == 7
\* largest max_chunk_length tried
MaxChunk == 5
\* most samples in a waveform given to save_audio
MaxSamples == 2
\* a float sample is a multiple of 1 / FloatDen
FloatDen == 2
\* requests handled at the same time by the web application
MaxThreads == 2

----------------------------------------------------------------------------
(* Python values.                                                          *)

None == [kind |-> "none", s |-> <<>>, n |-> 0]
Str(s) == [kind |-> "str", s |-> s, n |-> 0]
IntVal(n) == [kind |-> "int", s |-> <<>>, n |-> n]

\* an optional numeric argument: omitted (None) or given
NoArg == [given |-> FALSE, n |-> 0]
Arg(n) == [given |-> TRUE, n |-> n]

Ok(v) == [exc |-> "none", val |-> v]
Raise(e) == [exc |-> e, val |-> None]

\* bool(text), as `if not text` evaluates it
Truthy(t) ==
    CASE t.kind = "none" -> FALSE
      [] t.kind = "str" -> t.s # <<>>
      [] OTHER -> t.n # 0

Digit(d) == <<"0", "1", "2", "3", "4", "5", "6", "7", "8", "9">>[d + 1]

RECURSIVE NatStr(_)
NatStr(n) == IF n < 10 THEN <<Digit(n)>> ELSE NatStr(n \div 10) \o <<Digit(n % 10)>>

\* str(x) of a value that is not None
PyStr(t) ==
    IF t.kind = "str" THEN t.s
    ELSE IF t.n < 0 THEN <<"-">> \o NatStr(-t.n) ELSE NatStr(t.n)

----------------------------------------------------------------------------
(* Character classes of the re module.                                     *)

\* \s
WhitespaceChars == {" ", "\t", "\n", "\r", "\f"}

UpperChars ==
    {"A", "B", "C", "D", "E", "F", "G", "H", "I", "J", "K", "L", "M",
     "N", "O", "P", "Q", "R", "S", "T", "U", "V", "W", "X", "Y", "Z"}

LowerChars ==
    {"a", "b", "c", "d", "e", "f", "g", "h", "i", "j", "k", "l", "m",
     "n", "o", "p", "q", "r", "s", "t", "u", "v", "w", "x", "y", "z"}

DigitChars == {"0", "1", "2", "3", "4", "5", "6", "7", "8", "9"}

\* \w
WordChars == UpperChars \cup LowerChars \cup DigitChars \cup {"_"}

IsSpace(c) == c \in WhitespaceChars
IsWord(c) == c \in WordChars

\* s[i:j] for 0 <= i, with Python's 0-based half-open indices
Slice(s, i, j) ==
    IF j <= i THEN <<>> ELSE SubSeq(s, i + 1, IF j > Len(s) THEN Len(s) ELSE j)

\* s[:k], a negative k counting from the end
Prefix(s, k) ==
    IF k >= 0 THEN Slice(s, 0, k)
    ELSE IF Len(s) + k <= 0 THEN <<>> ELSE Slice(s, 0, Len(s) + k)

\* the positions 1..Len(s) of s, in order
Indices(s) == [i \in 1..Len(s) |-> i]

\* str.strip(): s from its first character that is no whitespace, and s up
\* to its last one
LStrip(s) ==
    IF \A i \in 1..Len(s) : IsSpace(s[i]) THEN <<>>
    ELSE SubSeq(s,
                CHOOSE i \in 1..Len(s) :
                    ~IsSpace(s[i]) /\ \A j \in 1..(i - 1) : IsSpace(s[j]),
                Len(s))

RStrip(s) ==
    IF \A i \in 1..Len(s) : IsSpace(s[i]) THEN <<>>
    ELSE SubSeq(s, 1,
                CHOOSE i \in 1..Len(s) :
                    ~IsSpace(s[i]) /\ \A j \in (i + 1)..Len(s) : IsSpace(s[j]))

Strip(s) == RStrip(LStrip(s))

\* str.rfind(' '): 0-based index of the last space, -1 when there is none
RFindSpace(s) ==
    IF \A i \in 1..Len(s) : s[i] # " " THEN -1
    ELSE (CHOOSE i \in 1..Len(s) :
              s[i] = " " /\ \A j \in (i + 1)..Len(s) : s[j] # " ") - 1

\* re.sub(r'\s+', ' ', s): every maximal run of whitespace becomes one
\* space: the first character of a run stays, as a space, the others go
SubWhitespace(s) ==
    LET kept == SelectSeq(Indices(s),
                          LAMBDA i : ~IsSpace(s[i]) \/ i = 1 \/ ~IsSpace(s[i - 1]))
    IN [k \in 1..Len(kept) |-> IF IsSpace(s[kept[k]]) THEN " " ELSE s[kept[k]]]

\* str.split(): the maximal runs of non-whitespace
Word(s) ==
    IF \A i \in 1..Len(s) : ~IsSpace(s[i]) THEN s
    ELSE SubSeq(s, 1,
                (CHOOSE i \in 1..Len(s) :
                     IsSpace(s[i]) /\ \A j \in 1..(i - 1) : ~IsSpace(s[j])) - 1)

RECURSIVE SplitWords(_)
SplitWords(s) ==
    LET t == LStrip(s)
    IN IF t = <<>> THEN <<>>
       ELSE <<Word(t)>> \o SplitWords(SubSeq(t, Len(Word(t)) + 1, Len(t)))

----------------------------------------------------------------------------
(* TextProcessor.clean_text                                                *)

clean_text_without_strip(t) ==
    IF t.kind = "none" THEN <<>> ELSE SubWhitespace(PyStr(t))

clean_text(t) ==
    IF t.kind = "none" THEN <<>>
    ELSE Strip(SubWhitespace(PyStr(t)))

----------------------------------------------------------------------------
(* TextProcessor.ABBREVIATIONS, in the order the dict literal lists them:  *)
(* <<abbreviation, expansion>>.                                            *)

ABBREVIATIONS == <<
    <<<<"D", "r", ".">>,
      <<"D", "o", "c", "t", "o", "r">>>>,
    <<<<"M", "r", ".">>,
      <<"M", "i", "s", "t", "e", "r">>>>,
    <<<<"M", "r", "s", ".">>,
      <<"M", "i", "s", "s", "u", "s">>>>,
    <<<<"M", "s", ".">>,
      <<"M", "i", "s", "s">>>>,
    <<<<"P", "r", "o", "f", ".">>,
      <<"P", "r", "o", "f", "e", "s", "s", "o", "r">>>>,
    <<<<"e", ".", "g", ".">>,
      <<"f", "o", "r", " ", "e", "x", "a", "m", "p", "l", "e">>>>,
    <<<<"i", ".", "e", ".">>,
      <<"t", "h", "a", "t", " ", "i", "s">>>>,
    <<<<"e", "t", "c", ".">>,
      <<"e", "t", "c", "e", "t", "e", "r", "a">>>>,
    <<<<"v", "s", ".">>,
      <<"v", "e", "r", "s", "u", "s">>>>,
    <<<<"v", ".">>,
      <<"v", "e", "r", "s", "u", "s">>>>,
    <<<<"v", "s">>,
      <<"v", "e", "r", "s", "u", "s">>>>,
    <<<<"v">>,
      <<"v", "e", "r", "s", "u", "s">>>>,
    <<<<"a", "p", "p", "r", "o", "x", ".">>,
      <<"a", "p", "p", "r", "o", "x", "i", "m", "a", "t", "e", "l", "y">>>>,
    <<<<"m", "i", "n", ".">>,
      <<"m", "i", "n", "i", "m", "u", "m">>>>,
    <<<<"m", "a", "x", ".">>,
      <<"m", "a", "x", "i", "m", "u", "m">>>>,
    <<<<"N", "o", ".">>,
      <<"N", "u", "m", "b", "e", "r">>>>,
    <<<<"n", "o", ".">>,
      <<"n", "u", "m", "b", "e", "r">>>>,
    <<<<"S", "t", ".">>,
      <<"S", "t", "r", "e", "e", "t">>>>,
    <<<<"A", "v", "e", ".">>,
      <<"A", "v", "e", "n", "u", "e">>>>,
    <<<<"B", "l", "v", "d", ".">>,
      <<"B", "o", "u", "l", "e", "v", "a", "r", "d">>>>,
    <<<<"R", "d", ".">>,
      <<"R", "o", "a", "d">>>>,
    <<<<"L", "t", "d", ".">>,
      <<"L", "i", "m", "i", "t", "e", "d">>>>,
    <<<<"I", "n", "c", ".">>,
      <<"I", "n", "c", "o", "r", "p", "o", "r", "a", "t", "e", "d">>>>,
    <<<<"C", "o", "r", "p", ".">>,
      <<"C", "o", "r", "p", "o", "r", "a", "t", "i", "o", "n">>>>,
    <<<<"C", "o", ".">>,
      <<"C", "o", "m", "p", "a", "n", "y">>>>,
    <<<<"J", "a", "n", ".">>,
      <<"J", "a", "n", "u", "a", "r", "y">>>>,
    <<<<"F", "e", "b", ".">>,
      <<"F", "e", "b", "r", "u", "a", "r", "y">>>>,
    <<<<"M", "a", "r", ".">>,
      <<"M", "a", "r", "c", "h">>>>,
    <<<<"A", "p", "r", ".">>,
      <<"A", "p", "r", "i", "l">>>>,
    <<<<"A", "u", "g", ".">>,
      <<"A", "u", "g", "u", "s", "t">>>>,
    <<<<"S", "e", "p", ".">>,
      <<"S", "e", "p", "t", "e", "m", "b", "e", "r">>>>,
    <<<<"S", "e", "p", "t", ".">>,
      <<"S", "e", "p", "t", "e", "m", "b", "e", "r">>>>,
    <<<<"O", "c", "t", ".">>,
      <<"O", "c", "t", "o", "b", "e", "r">>>>,
    <<<<"N", "o", "v", ".">>,
      <<"N", "o", "v", "e", "m", "b", "e", "r">>>>,
    <<<<"D", "e", "c", ".">>,
      <<"D", "e", "c", "e", "m", "b", "e", "r">>>>
>>

\* length of the longest abbreviation of the table
MaxAbbrevLen ==
    LET lens == {Len(ABBREVIATIONS[k][1]) : k \in 1..Len(ABBREVIATIONS)}
    IN CHOOSE n \in lens : \A m \in lens : m <= n

\* sorted(ABBREVIATIONS.items(), key=lambda x: len(x[0]), reverse=True):
\* by length, longest first; the sort is stable, so equal lengths keep the
\* table's order
RECURSIVE ByLenFrom(_)
ByLenFrom(L) ==
    IF L = 0 THEN <<>>
    ELSE SelectSeq(ABBREVIATIONS, LAMBDA p : Len(p[1]) = L) \o ByLenFrom(L - 1)

\* the table sorted the other way round, shortest abbreviation first
sorted_abbrevs_shortest_first ==
    LET longest_first == ByLenFrom(MaxAbbrevLen)
        n == Len(longest_first)
    IN [i \in 1..n |-> longest_first[n + 1 - i]]

sorted_abbrevs == ByLenFrom(MaxAbbrevLen)

\* whether s has a \w character at 1-based position k
WordAt(s, k) == k \in 1..Len(s) /\ IsWord(s[k])

\* \b just before 1-based position k
WordBoundary(s, k) == WordAt(s, k - 1) # WordAt(s, k)

\* the literal abbrev at 1-based position i of s
LiteralAt(s, i, abbrev) ==
    /\ i + Len(abbrev) - 1 <= Len(s)
    /\ SubSeq(s, i, i + Len(abbrev) - 1) = abbrev

pattern_matches_without_lookahead(s, i, abbrev) ==
    /\ LiteralAt(s, i, abbrev)
    /\ IF abbrev[Len(abbrev)] = "."
       THEN ~WordAt(s, i - 1)
       ELSE WordBoundary(s, i)

\* whether the pattern built for abbrev matches at 1-based position i:
\* (?<!\w)abbrev(?!\w) when abbrev ends with a period, else \babbrev\b
pattern_matches(s, i, abbrev) ==
    /\ LiteralAt(s, i, abbrev)
    /\ IF abbrev[Len(abbrev)] = "."
       THEN ~WordAt(s, i - 1) /\ ~WordAt(s, i + Len(abbrev))
       ELSE WordBoundary(s, i) /\ WordBoundary(s, i + Len(abbrev))

\* re.sub(pattern, expansion, s): the non-overlapping matches, leftmost
\* first, each replaced; the lookarounds read s itself, not the output
RECURSIVE ReSubFrom(_, _, _, _)
ReSubFrom(s, i, abbrev, expansion) ==
    IF i > Len(s) THEN <<>>
    ELSE IF pattern_matches(s, i, abbrev)
         THEN expansion \o ReSubFrom(s, i + Len(abbrev), abbrev, expansion)
         ELSE <<s[i]>> \o ReSubFrom(s, i + 1, abbrev, expansion)

\* the for loop over sorted_abbrevs, from entry k on
RECURSIVE ExpandFrom(_, _)
ExpandFrom(s, k) ==
    IF k > Len(sorted_abbrevs) THEN s
    ELSE ExpandFrom(ReSubFrom(s, 1, sorted_abbrevs[k][1], sorted_abbrevs[k][2]), k + 1)

\* TextProcessor.expand_abbreviations: a falsy text is returned as it is;
\* re.sub raises TypeError for a text that is not a str
expand_abbreviations(t) ==
    IF ~Truthy(t) THEN Ok(t)
    ELSE IF t.kind # "str" THEN Raise("TypeError")
    ELSE Ok(Str(ExpandFrom(t.s, 1)))

----------------------------------------------------------------------------
(* TextProcessor.validate_text: <<is_valid, error_message>>, the message   *)
(* as its kind ("none" for None).                                          *)

MIN_TEXT_LENGTH == 3

validate_text_without_empty_check(t, max_length, min_length) ==
    LET min == IF min_length.given THEN min_length.n ELSE MIN_TEXT_LENGTH
        cleaned_text == clean_text(t)
    IN IF Len(cleaned_text) < min THEN [valid |-> FALSE, reason |-> "too_short"]
       ELSE IF Len(cleaned_text) > max_length
            THEN [valid |-> FALSE, reason |-> "too_long"]
       ELSE [valid |-> TRUE, reason |-> "none"]

validate_text(t, max_length, min_length) ==
    LET min == IF min_length.given THEN min_length.n ELSE MIN_TEXT_LENGTH
        cleaned_text == clean_text(t)
    IN IF ~Truthy(t) THEN [valid |-> FALSE, reason |-> "empty"]
       ELSE IF cleaned_text = <<>> THEN [valid |-> FALSE, reason |-> "empty"]
       ELSE IF Len(cleaned_text) < min THEN [valid |-> FALSE, reason |-> "too_short"]
       ELSE IF Len(cleaned_text) > max_length
            THEN [valid |-> FALSE, reason |-> "too_long"]
       ELSE [valid |-> TRUE, reason |-> "none"]

----------------------------------------------------------------------------
(* TextProcessor.preprocess_for_tts                                        *)

\* Step 4: last_space > max_length * 0.8, in tenths (8 * max_length is
\* exact, and max_length * 0.8 rounds to the integer when it is one)
truncate_at_threshold_too(processed_text, max_length) ==
    IF Len(processed_text) > max_length
    THEN LET truncated == Prefix(processed_text, max_length)
             last_space == RFindSpace(truncated)
         IN IF 10 * last_space >= 8 * max_length
            THEN Prefix(truncated, last_space)
            ELSE truncated
    ELSE processed_text

\* Step 4 without the search for a word boundary
truncate_hard_cut(processed_text, max_length) ==
    IF Len(processed_text) > max_length
    THEN Prefix(processed_text, max_length)
    ELSE processed_text

truncate(processed_text, max_length) ==
    IF Len(processed_text) > max_length
    THEN LET truncated == Prefix(processed_text, max_length)
             last_space == RFindSpace(truncated)
         IN IF 10 * last_space > 8 * max_length
            THEN Prefix(truncated, last_space)
            ELSE truncated
    ELSE processed_text

preprocess_for_tts_without_truncation(t, max_length) ==
    IF ~Truthy(t) THEN <<>>
    ELSE clean_text(expand_abbreviations(Str(clean_text(t))).val)

preprocess_for_tts(t, max_length) ==
    IF ~Truthy(t) THEN <<>>
    ELSE LET step1 == clean_text(t)
             step2 == expand_abbreviations(Str(step1)).val
             step3 == clean_text(step2)
         IN truncate(step3, max_length)

----------------------------------------------------------------------------
(* TextProcessor.estimate_duration: the float result as the exact          *)
(* fraction num / den.                                                     *)

DEFAULT_WPM == 150

Zero == [num |-> 0, den |-> 1]

estimate_duration_by_characters(t, words_per_minute) ==
    LET wpm == IF words_per_minute.given THEN words_per_minute.n ELSE DEFAULT_WPM
    IN IF ~Truthy(t) \/ clean_text(t) = <<>> THEN Ok(Zero)
       ELSE IF wpm = 0 THEN Raise("ZeroDivisionError")
       ELSE Ok([num |-> Len(clean_text(t)) * 60, den |-> wpm])

estimate_duration(t, words_per_minute) ==
    LET wpm == IF words_per_minute.given THEN words_per_minute.n ELSE DEFAULT_WPM
        cleaned_text == clean_text(t)
        word_count == Len(SplitWords(cleaned_text))
    IN IF ~Truthy(t) THEN Ok(Zero)
       ELSE IF cleaned_text = <<>> THEN Ok(Zero)
       ELSE IF wpm = 0 THEN Raise("ZeroDivisionError")
       ELSE Ok([num |-> word_count * 60, den |-> wpm])

----------------------------------------------------------------------------
(* TTSEngine.split_text                                                    *)

\* str.replace(old, new) for one-character old and new
Replace(s, old, new) == [i \in 1..Len(s) |-> IF s[i] = old THEN new ELSE s[i]]

\* str.split(sep): the fragments between the separators, empty ones kept:
\* with n separators there are n + 1 fragments, the k-th from after the
\* (k-1)-th separator to before the k-th
SplitOn(s, sep) ==
    LET seps == SelectSeq(Indices(s), LAMBDA i : s[i] = sep)
    IN [k \in 1..(Len(seps) + 1) |->
           SubSeq(s,
                  (IF k = 1 THEN 0 ELSE seps[k - 1]) + 1,
                  (IF k = Len(seps) + 1 THEN Len(s) + 1 ELSE seps[k]) - 1)]

\* sentences = [s.strip() + '.' for s in sentences if s.strip()]
RetainSentences(frags) ==
    LET kept == SelectSeq(frags, LAMBDA f : Strip(f) # <<>>)
    IN [k \in 1..Len(kept) |-> Strip(kept[k]) \o <<".">>]

split_sentences(s) ==
    RetainSentences(SplitOn(Replace(Replace(s, "!", "."), "?", "."), "."))

pack_step_dropping_closed_chunk(st, sentence, max_chunk_length) ==
    IF Len(st.current_chunk) + Len(sentence) <= max_chunk_length
    THEN [st EXCEPT !.current_chunk = @ \o <<" ">> \o sentence]
    ELSE [st EXCEPT !.current_chunk = sentence]

\* one iteration of `for sentence in sentences`
pack_step(st, sentence, max_chunk_length) ==
    IF Len(st.current_chunk) + Len(sentence) <= max_chunk_length
    THEN [st EXCEPT !.current_chunk = @ \o <<" ">> \o sentence]
    ELSE [chunks |-> IF st.current_chunk # <<>>
                     THEN Append(st.chunks, Strip(st.current_chunk))
                     ELSE st.chunks,
          current_chunk |-> sentence]

RECURSIVE pack_loop(_, _, _)
pack_loop(st, sentences, max_chunk_length) ==
    IF sentences = <<>> THEN st
    ELSE pack_loop(pack_step(st, Head(sentences), max_chunk_length),
                   Tail(sentences), max_chunk_length)

split_text(s, max_chunk_length) ==
    LET st == pack_loop([chunks |-> <<>>, current_chunk |-> <<>>],
                        split_sentences(s), max_chunk_length)
    IN IF st.current_chunk # <<>>
       THEN Append(st.chunks, Strip(st.current_chunk))
       ELSE st.chunks

----------------------------------------------------------------------------
(* The inputs the operations are applied to.                               *)

\* the strs of length at most n over the characters of A
StrsUpTo(A, n) == UNION {[1..k -> A] : k \in 0..n}

Alphabet == {"a", "v", ".", " ", "\t"}

\* the texts of the repository's tests (tests/test_text_processor.py)
TestTexts ==
    {<<" ", " ", "H", "e", "l", "l", "o", " ", " ", " ", "w", "o", "r", "l", "d", " ", " ">>,
     <<"H", "i">>,
     <<"H", "e", "l", "l", "o", " ", "w", "o", "r", "l", "d">>,
     <<" ", " ", "D", "r", ".", " ", "S", "m", "i", "t", "h", " ", "s", "a", "i", "d",
       " ", "h", "e", "l", "l", "o", " ", " ">>,
     <<"a", " ", "a", " ", "a", " ", "a", " ", "a", " ", "a", " ", "a", " ", "a", " ",
       "a", " ", "a">>}

\* texts whose last space within max_length characters lies at, above and
\* below 80% of max_length
TruncationTexts ==
    {<<"a", "a", "a", "a", " ", "b">>,
     <<"a", "a", "a", "a", "a", " ", "b", "b">>,
     <<"a", "a", "a", " ", "b", "b", "b", "b">>}

\* text as a caller may pass it: absent, a str, or a value that is no str
TextInputs ==
    {None, IntVal(0), IntVal(7)}
        \cup {Str(s) : s \in StrsUpTo(Alphabet, MaxTextLen) \cup TestTexts
                                 \cup TruncationTexts}

MaxLengths == (-1)..MaxLimit
MinLengths == {NoArg} \cup {Arg(n) : n \in 0..MaxLimit}
WordsPerMinute == {NoArg, Arg(0), Arg(1), Arg(-60), Arg(DEFAULT_WPM)}

NoCall == [op |-> "none", max_length |-> 0, min_length |-> NoArg, wpm |-> NoArg]

\* a path: its stem and its suffix (Path.suffix), both strs
NoPath == [stem |-> <<>>, suffix |-> <<>>]

\* generate_speech not entered
NoSpeech == [text |-> <<>>, chunks |-> <<>>, audio_chunks |-> <<>>]

SpeechIdle ==
    /\ speech = NoSpeech
    /\ model_calls = <<>>

\* the web application not started
AppIdle ==
    /\ tts_engine = 0
    /\ loads = 0
    /\ handlers = <<>>
    /\ audio_dir = {}
    /\ config = <<>>

SaveIdle ==
    /\ pc = "idle"
    /\ req = <<>>
    /\ audio = <<>>
    /\ out_path = NoPath
    /\ fs = {}
    /\ temp_path = NoPath
    /\ result = <<>>
    /\ SpeechIdle
    /\ AppIdle

InitText ==
    /\ text \in TextInputs
    /\ call = NoCall
    /\ ret = <<>>
    /\ SaveIdle

CleanText ==
    /\ call.op = "none"
    /\ call' = [call EXCEPT !.op = "clean_text"]
    /\ ret' = Ok(clean_text(text))
    /\ UNCHANGED <<text, saveVars, speechVars, appVars>>

ExpandAbbreviations ==
    /\ call.op = "none"
    /\ call' = [call EXCEPT !.op = "expand_abbreviations"]
    /\ ret' = expand_abbreviations(text)
    /\ UNCHANGED <<text, saveVars, speechVars, appVars>>

ValidateText ==
    /\ call.op = "none"
    /\ \E max_length \in MaxLengths, min_length \in MinLengths :
          /\ call' = [call EXCEPT !.op = "validate_text",
                                  !.max_length = max_length,
                                  !.min_length = min_length]
          /\ ret' = Ok(validate_text(text, max_length, min_length))
    /\ UNCHANGED <<text, saveVars, speechVars, appVars>>

PreprocessForTts ==
    /\ call.op = "none"
    /\ \E max_length \in MaxLengths :
          /\ call' = [call EXCEPT !.op = "preprocess_for_tts",
                                  !.max_length = max_length]
          /\ ret' = Ok(preprocess_for_tts(text, max_length))
    /\ UNCHANGED <<text, saveVars, speechVars, appVars>>

EstimateDuration ==
    /\ call.op = "none"
    /\ \E wpm \in WordsPerMinute :
          /\ call' = [call EXCEPT !.op = "estimate_duration", !.wpm = wpm]
          /\ ret' = estimate_duration(text, wpm)
    /\ UNCHANGED <<text, saveVars, speechVars, appVars>>

NextText ==
    \/ CleanText
    \/ ExpandAbbreviations
    \/ ValidateText
    \/ PreprocessForTts
    \/ EstimateDuration

SpecText == InitText /\ [][NextText]_vars

----------------------------------------------------------------------------
(* Properties of the Text Normalizer, checked under SpecText.              *)

\* no two adjacent whitespace characters, none at either end
WhitespaceCollapsed(s) ==
    /\ \A i \in 1..(Len(s) - 1) : ~(IsSpace(s[i]) /\ IsSpace(s[i + 1]))
    /\ s # <<>> => ~IsSpace(s[1]) /\ ~IsSpace(s[Len(s)])

\* the number of words of s: the positions where a run of non-whitespace starts
WordStarts(s) ==
    Cardinality({i \in 1..Len(s) : ~IsSpace(s[i]) /\ (i = 1 \/ IsSpace(s[i - 1]))})

\* the k-th word of s, read off s directly: from the k-th word start to the
\* character before the next whitespace
NthWord(s, k) ==
    LET starts == {i \in 1..Len(s) : ~IsSpace(s[i]) /\ (i = 1 \/ IsSpace(s[i - 1]))}
        from == CHOOSE i \in starts : Cardinality({j \in starts : j <= i}) = k
        to == CHOOSE j \in from..Len(s) :
                 /\ \A m \in from..j : ~IsSpace(s[m])
                 /\ j = Len(s) \/ IsSpace(s[j + 1])
    IN SubSeq(s, from, to)

\* the words of s with one space between neighbours
RECURSIVE SpacedWords(_, _)
SpacedWords(s, k) ==
    IF k > WordStarts(s) THEN <<>>
    ELSE IF k = 1 THEN NthWord(s, 1) \o SpacedWords(s, 2)
    ELSE <<" ">> \o NthWord(s, k) \o SpacedWords(s, k + 1)

\* C5: clean_text of a str is its words in order with exactly one space
\* between neighbours (every whitespace run collapsed to one space, leading
\* and trailing whitespace removed), so the output has no two adjacent
\* whitespace characters and none at either end; clean_text(None) and
\* clean_text("") are the empty str.
C5_CleanText ==
    call.op = "clean_text" =>
        /\ ret.exc = "none"
        /\ text.kind = "str" =>
              /\ ret.val = SpacedWords(text.s, 1)
              /\ WhitespaceCollapsed(ret.val)
        /\ (text = None \/ text = Str(<<>>)) => ret.val = <<>>

\* a str with a run of mixed whitespace between two words was cleaned
C5_Witness ==
    /\ call.op = "clean_text"
    /\ text.kind = "str"
    /\ \E i \in 1..(Len(text.s) - 1) : text.s[i] = " " /\ text.s[i + 1] = "\t"
    /\ ~IsSpace(text.s[Len(text.s)])
    /\ Len(ret.val) = Len(text.s) - 1

\* C2: for max_length >= 0 the result of preprocess_for_tts is at most
\* max_length long, and a text of only non-space, non-abbreviation
\* characters longer than max_length gives exactly max_length characters.
C2_LengthBounded ==
    (call.op = "preprocess_for_tts" /\ call.max_length >= 0) =>
        /\ Len(ret.val) <= call.max_length
        /\ (/\ text.kind = "str"
            /\ \A i \in 1..Len(text.s) : text.s[i] = "a"
            /\ Len(text.s) > call.max_length) => Len(ret.val) = call.max_length

\* a text whose expansion is longer than max_length was cut to it
C2_Witness ==
    /\ call.op = "preprocess_for_tts"
    /\ call.max_length >= 1
    /\ text.kind = "str"
    /\ Len(clean_text(text)) <= call.max_length
    /\ Len(clean_text(expand_abbreviations(Str(clean_text(text))).val)) > call.max_length
    /\ Len(ret.val) = call.max_length

\* C3 (as claimed): for every text and max_length the result of
\* preprocess_for_tts is whitespace-collapsed, truncated or not.
C3_Collapsed ==
    call.op = "preprocess_for_tts" => WhitespaceCollapsed(ret.val)

\* the length limits of the call under way
MinOf(c) == IF c.min_length.given THEN c.min_length.n ELSE MIN_TEXT_LENGTH

\* C4 (as claimed): validate_text is valid with no reason exactly when
\* min_length <= len(clean_text(text)) <= max_length.
C4_ValidIffInRange ==
    call.op = "validate_text" =>
        ((ret.val.valid /\ ret.val.reason = "none")
            <=> (/\ MinOf(call) <= Len(clean_text(text))
                 /\ Len(clean_text(text)) <= call.max_length))

\* C4 (amended): validate_text is valid with no reason exactly when the text
\* is truthy, its cleaned form is not empty and min_length <=
\* len(clean_text(text)) <= max_length; otherwise it is invalid with a
\* reason: "empty" for absent, empty or whitespace-only text, and a reason
\* whenever the cleaned length is below min_length or above max_length.
C4_ValidIffNonEmptyInRange ==
    call.op = "validate_text" =>
        LET n == Len(clean_text(text))
        IN /\ ret.exc = "none"
           /\ ret.val.valid <=>
                 (Truthy(text) /\ n > 0 /\ MinOf(call) <= n /\ n <= call.max_length)
           /\ ret.val.valid <=> ret.val.reason = "none"
           /\ (text = None \/ (text.kind = "str" /\ WordStarts(text.s) = 0))
                 => ret.val.reason = "empty"
           /\ (n < MinOf(call) \/ n > call.max_length) => ~ret.val.valid

\* a text was accepted at both ends of its range, with the default minimum
C4_Witness ==
    /\ call.op = "validate_text"
    /\ ~call.min_length.given
    /\ Len(clean_text(text)) = MIN_TEXT_LENGTH
    /\ call.max_length = MIN_TEXT_LENGTH
    /\ Len(text.s) > MIN_TEXT_LENGTH
    /\ ret.val = [valid |-> TRUE, reason |-> "none"]

\* words_per_minute as estimate_duration uses it
WpmOf(c) == IF c.wpm.given THEN c.wpm.n ELSE DEFAULT_WPM

\* C7: for text that is absent or a str and words_per_minute # 0,
\* estimate_duration returns 0.0 when the text has no word (absent, empty,
\* whitespace only) and otherwise word_count * 60 / words_per_minute, the
\* default rate being 150; the result is non-negative for a positive rate,
\* and 10 words at 150 words per minute give 4.0.
C7_Duration ==
    (/\ call.op = "estimate_duration"
     /\ text.kind \in {"none", "str"}
     /\ WpmOf(call) # 0) =>
        LET wc == WordStarts(text.s)
        IN /\ ret.exc = "none"
           /\ wc = 0 => ret.val.num = 0
           /\ wc > 0 => /\ ret.val.den # 0
                        /\ ret.val.num * WpmOf(call) = wc * 60 * ret.val.den
           /\ WpmOf(call) > 0 => ret.val.num * ret.val.den >= 0
           /\ (wc = 10 /\ WpmOf(call) = 150) => ret.val.num = 4 * ret.val.den

\* ten words at the default rate took 4.0 seconds
C7_Witness ==
    /\ call.op = "estimate_duration"
    /\ ~call.wpm.given
    /\ text.kind = "str"
    /\ WordStarts(text.s) = 10
    /\ ret.val.num = 4 * ret.val.den

\* C8 (as claimed): every operation of the Text Normalizer returns a value
\* for every text and every value of its numeric arguments; none raises.
C8_Total ==
    call.op # "none" => ret.exc = "none"

----------------------------------------------------------------------------
(* expand_abbreviations on texts built from abbreviations.                 *)

AbbrevTokens ==
    {<<"D", "r", ".">>,
     <<"M", "r", ".">>,
     <<"m", "r", ".">>,
     <<"M", "r", "s", ".">>,
     <<"S", "e", "p", ".">>,
     <<"S", "e", "p", "t", ".">>,
     <<"e", ".", "g", ".">>,
     <<"i", ".", "e", ".">>,
     <<"v", "s", ".">>,
     <<"v", "s">>,
     <<"v", ".">>,
     <<"v">>,
     <<" ">>,
     <<"a">>,
     <<".">>}

\* the strs made of at most n tokens
RECURSIVE TokenStrs(_)
TokenStrs(n) ==
    IF n = 0 THEN {<<>>}
    ELSE LET shorter == TokenStrs(n - 1)
         IN shorter \cup {s \o tok : s \in shorter, tok \in AbbrevTokens}

\* the texts of test_expand_abbreviations
AbbrevTestTexts ==
    {<<"D", "r", ".", " ", "S", "m", "i", "t", "h">>,
     <<"M", "r", ".", " ", "a", "n", "d", " ", "M", "r", "s", ".", " ", "J", "o", "n", "e", "s">>,
     <<"e", ".", "g", ".", " ", "e", "x", "a", "m", "p", "l", "e">>}

InitAbbrev ==
    /\ text \in {Str(s) : s \in TokenStrs(MaxTokens) \cup AbbrevTestTexts}
    /\ call = NoCall
    /\ ret = <<>>
    /\ SaveIdle

NextAbbrev == ExpandAbbreviations

SpecAbbrev == InitAbbrev /\ [][NextAbbrev]_vars

\* an occurrence of abbrev at 1-based position i with no word character
\* next to it on either side
Eligible(s, i, abbrev) ==
    /\ LiteralAt(s, i, abbrev)
    /\ i > 1 => ~IsWord(s[i - 1])
    /\ i + Len(abbrev) <= Len(s) => ~IsWord(s[i + Len(abbrev)])

\* the table entries with such an occurrence at position i
EligibleAt(s, i) ==
    {k \in 1..Len(ABBREVIATIONS) : Eligible(s, i, ABBREVIATIONS[k][1])}

\* s read once from position i: where table entries have an eligible
\* occurrence the longest of them is replaced by its expansion, every other
\* character is copied
RECURSIVE ExpectedExpansion(_, _)
ExpectedExpansion(s, i) ==
    IF i > Len(s) THEN <<>>
    ELSE LET here == EligibleAt(s, i)
             longest == CHOOSE k \in here :
                           \A j \in here :
                              Len(ABBREVIATIONS[j][1]) <= Len(ABBREVIATIONS[k][1])
         IN IF here = {} THEN <<s[i]>> \o ExpectedExpansion(s, i + 1)
            ELSE ABBREVIATIONS[longest][2]
                    \o ExpectedExpansion(s, i + Len(ABBREVIATIONS[longest][1]))

\* C6: expand_abbreviations replaces an occurrence of a table abbreviation
\* by its expansion exactly when it matches case-sensitively with no word
\* character on either side (of the entries that so occur at one place, the
\* longest), and copies all other text; "Dr. Smith" gives "Doctor Smith",
\* "Mr. and Mrs. Jones" gives "Mister and Missus Jones", "e.g. example"
\* gives "for example example".
C6_Expansion ==
    call.op = "expand_abbreviations" =>
        /\ ret.exc = "none"
        /\ ret.val.s = ExpectedExpansion(text.s, 1)
        /\ text.s = <<"D", "r", ".", " ", "S", "m", "i", "t", "h">>
              => ret.val.s = <<"D", "o", "c", "t", "o", "r", " ", "S", "m", "i", "t", "h">>
        /\ text.s = <<"M", "r", ".", " ", "a", "n", "d", " ", "M", "r", "s", ".", " ", "J", "o", "n", "e", "s">>
              => ret.val.s = <<"M", "i", "s", "t", "e", "r", " ", "a", "n", "d", " ", "M", "i", "s", "s", "u", "s", " ", "J", "o", "n", "e", "s">>
        /\ text.s = <<"e", ".", "g", ".", " ", "e", "x", "a", "m", "p", "l", "e">>
              => ret.val.s = <<"f", "o", "r", " ", "e", "x", "a", "m", "p", "l", "e", " ", "e", "x", "a", "m", "p", "l", "e">>

\* a text with one occurrence next to a word character, left as it was, and
\* another that was expanded
C6_Witness ==
    /\ call.op = "expand_abbreviations"
    /\ \E i \in 1..Len(text.s), k \in 1..Len(ABBREVIATIONS) :
          /\ LiteralAt(text.s, i, ABBREVIATIONS[k][1])
          /\ ~Eligible(text.s, i, ABBREVIATIONS[k][1])
          /\ Len(ABBREVIATIONS[k][1]) >= 3
          /\ SubSeq(ret.val.s, i, i + Len(ABBREVIATIONS[k][1]) - 1)
                = ABBREVIATIONS[k][1]
    /\ \E i \in 1..Len(text.s) : EligibleAt(text.s, i) # {}
    /\ ret.val.s # text.s


\* a text whose characters carry where they came from: by = 0 for a
\* character of the input text (at = its position there), by = k for a
\* character written by the pass of sorted_abbrevs[k] (at = the origin of the
\* first character it replaced); over records that the replaced occurrence
\* contained a character an earlier pass had written
Mark(s) ==
    [i \in 1..Len(s) |-> [c |-> s[i], by |-> 0, at |-> i, over |-> FALSE]]

Chars(m) == [i \in 1..Len(m) |-> m[i].c]

\* re.sub for sorted_abbrevs[k] over the marked text m, whose characters
\* are s, from position i
RECURSIVE MarkedSubFrom(_, _, _, _)
MarkedSubFrom(m, s, i, k) ==
    LET abbrev == sorted_abbrevs[k][1]
        expansion == sorted_abbrevs[k][2]
    IN IF i > Len(m) THEN <<>>
       ELSE IF pattern_matches(s, i, abbrev)
            THEN [j \in 1..Len(expansion) |->
                     [c |-> expansion[j], by |-> k, at |-> m[i].at,
                      over |-> \E x \in i..(i + Len(abbrev) - 1) : m[x].by # 0]]
                 \o MarkedSubFrom(m, s, i + Len(abbrev), k)
            ELSE <<m[i]>> \o MarkedSubFrom(m, s, i + 1, k)

\* the marked text after the passes of entries k, k + 1, ...; the pass of an
\* abbreviation whose first character is not in the text changes nothing
RECURSIVE MarkedExpandFrom(_, _)
MarkedExpandFrom(m, k) ==
    IF k > Len(sorted_abbrevs) THEN m
    ELSE IF \E i \in 1..Len(m) : m[i].c = sorted_abbrevs[k][1][1]
         THEN MarkedExpandFrom(MarkedSubFrom(m, Chars(m), 1, k), k + 1)
         ELSE MarkedExpandFrom(m, k + 1)

\* the table entries whose pattern matches the text s at position i
MatchingAt(s, i) ==
    {k \in 1..Len(sorted_abbrevs) : pattern_matches(s, i, sorted_abbrevs[k][1])}

LongestOf(entries) ==
    CHOOSE k \in entries :
        \A j \in entries : Len(sorted_abbrevs[j][1]) <= Len(sorted_abbrevs[k][1])

\* the output has, for the occurrence at position i of the input, the
\* expansion of entry k and none of the occurrence's own characters
ExpandedAs(m, i, k) ==
    /\ \A x \in 1..Len(m) :
          m[x].by = 0 => m[x].at \notin i..(i + Len(sorted_abbrevs[k][1]) - 1)
    /\ LET written == SelectSeq(m, LAMBDA r : r.by # 0 /\ r.at = i)
       IN /\ Chars(written) = sorted_abbrevs[k][2]
          /\ \A x \in 1..Len(written) : written[x].by = k

\* C21: expand_abbreviations applies the table longest abbreviation first:
\* where table entries match at one position of the text, the longest of
\* them is the one expanded and no character of the occurrence is left over
\* ("vs." and "v." each give "versus", with no stray period), and no pass
\* replaces an occurrence that contains a character written by an earlier
\* pass.
C21_LongestFirst ==
    call.op = "expand_abbreviations" =>
        LET m == MarkedExpandFrom(Mark(text.s), 1)
        IN /\ ret.exc = "none"
           /\ Chars(m) = ret.val.s
           /\ \A x \in 1..Len(m) : ~m[x].over
           /\ \A i \in 1..Len(text.s) :
                 MatchingAt(text.s, i) # {}
                    => ExpandedAs(m, i, LongestOf(MatchingAt(text.s, i)))
           /\ text.s \in {<<"v", "s", ".">>, <<"v", ".">>, <<"v", "s">>, <<"v">>}
                 => ret.val.s = <<"v", "e", "r", "s", "u", "s">>
           /\ text.s = <<"M", "r", "s", ".">>
                 => ret.val.s = <<"M", "i", "s", "s", "u", "s">>
           /\ text.s = <<"S", "e", "p", "t", ".">>
                 => ret.val.s = <<"S", "e", "p", "t", "e", "m", "b", "e", "r">>

\* a text where a shorter and a longer entry both match at one position,
\* next to other text, and the longer one was expanded
C21_Witness ==
    /\ call.op = "expand_abbreviations"
    /\ \E i \in 1..Len(text.s) :
          /\ \E j, k \in MatchingAt(text.s, i) :
                Len(sorted_abbrevs[j][1]) < Len(sorted_abbrevs[k][1])
          /\ ExpandedAs(MarkedExpandFrom(Mark(text.s), 1), i,
                        LongestOf(MatchingAt(text.s, i)))
          /\ Len(text.s) > Len(sorted_abbrevs[LongestOf(MatchingAt(text.s, i))][1])

----------------------------------------------------------------------------
(* split_text on texts of short sentences.                                 *)

SplitAlphabet == {"a", ".", "!", " "}

\* "Hi? Yes." and a text of tabs and question marks
SplitTestTexts ==
    {<<"H", "i", "?", " ", "Y", "e", "s", ".">>,
     <<"\t", "?", "a", "\t", "?">>}

ChunkLengths == 0..MaxChunk

InitSplit ==
    /\ text \in {Str(s) : s \in StrsUpTo(SplitAlphabet, MaxSplitLen) \cup SplitTestTexts}
    /\ call = NoCall
    /\ ret = <<>>
    /\ SaveIdle

\* split_text(text, max_chunk_length); call.max_length holds the budget
SplitText ==
    /\ call.op = "none"
    /\ \E max_chunk_length \in ChunkLengths :
          /\ call' = [call EXCEPT !.op = "split_text",
                                  !.max_length = max_chunk_length]
          /\ ret' = Ok(split_text(text.s, max_chunk_length))
    /\ UNCHANGED <<text, saveVars, speechVars, appVars>>

NextSplit == SplitText

SpecSplit == InitSplit /\ [][NextSplit]_vars

Terminators == {".", "!", "?"}

\* the fragments of s between sentence terminators, read left to right with
\* the fragment so far in acc
RECURSIVE Fragments(_, _)
Fragments(s, acc) ==
    IF s = <<>> THEN <<acc>>
    ELSE IF Head(s) \in Terminators THEN <<acc>> \o Fragments(Tail(s), <<>>)
    ELSE Fragments(Tail(s), Append(acc, Head(s)))

\* the non-empty sentences of s: its fragments trimmed, the empty ones left
\* out, each with a period restored
SentencesOf(s) ==
    LET frags == Fragments(s, <<>>)
        kept == SelectSeq(frags, LAMBDA f : \E i \in 1..Len(f) : ~IsSpace(f[i]))
    IN [k \in 1..Len(kept) |-> Strip(kept[k]) \o <<".">>]

\* the sentences of the chunks, chunk after chunk
RECURSIVE SentencesOfChunks(_)
SentencesOfChunks(chunks) ==
    IF chunks = <<>> THEN <<>>
    ELSE SentencesOf(Head(chunks)) \o SentencesOfChunks(Tail(chunks))

\* C9 (as claimed): every chunk of split_text is at most max_chunk_length
\* long, except a chunk that is one single sentence.
C9_ChunkWithinBudget ==
    call.op = "split_text" =>
        \A k \in 1..Len(ret.val) :
            \/ Len(ret.val[k]) <= call.max_length
            \/ Len(SentencesOf(ret.val[k])) = 1

\* C10: the chunks of split_text, read in order, hold exactly the non-empty
\* sentences of the text, in the text's order and each once, and no chunk
\* is empty.
C10_SentencesPreserved ==
    call.op = "split_text" =>
        /\ ret.exc = "none"
        /\ SentencesOfChunks(ret.val) = SentencesOf(text.s)
        /\ \A k \in 1..Len(ret.val) : ret.val[k] # <<>>

\* three sentences, an empty fragment dropped, came out in two chunks
C10_Witness ==
    /\ call.op = "split_text"
    /\ Len(SentencesOf(text.s)) = 3
    /\ Len(Fragments(text.s, <<>>)) > 4
    /\ Len(ret.val) = 2

----------------------------------------------------------------------------
(* The Audio Exporter: TTSEngine.save_audio and text_to_speech_file.       *)
(* A waveform is [dtype, ndim, rows]: a 1-D array is one row; a float      *)
(* sample x stands for x / FloatDen.                                       *)

UpperSeq ==
    <<"A", "B", "C", "D", "E", "F", "G", "H", "I", "J", "K", "L", "M",
      "N", "O", "P", "Q", "R", "S", "T", "U", "V", "W", "X", "Y", "Z">>

LowerSeq ==
    <<"a", "b", "c", "d", "e", "f", "g", "h", "i", "j", "k", "l", "m",
      "n", "o", "p", "q", "r", "s", "t", "u", "v", "w", "x", "y", "z">>

\* str.lower()
Lower(s) ==
    [i \in 1..Len(s) |->
        IF s[i] \in UpperChars
        THEN LowerSeq[CHOOSE k \in 1..Len(UpperSeq) : UpperSeq[k] = s[i]]
        ELSE s[i]]

SuffixWav == <<".", "w", "a", "v">>
SuffixMp3 == <<".", "m", "p", "3">>

\* Path.with_suffix
with_suffix_keeping_suffix(path, suffix) == path

with_suffix(path, suffix) == [path EXCEPT !.suffix = suffix]

\* the name tempfile.NamedTemporaryFile(suffix='.wav') hands out
TempWavPath == [stem |-> <<"t", "m", "p">>, suffix |-> SuffixWav]

\* ndarray.flatten(): the rows one after the other
RECURSIVE Flatten(_)
Flatten(rows) == IF rows = <<>> THEN <<>> ELSE Head(rows) \o Flatten(Tail(rows))

\* an integer cast to int16: the low 16 bits, two's complement
ToInt16(n) == ((n + 32768) % 65536) - 32768

\* the integer part of a / b for b > 0, rounded towards zero as astype does
TruncDiv(a, b) == IF a >= 0 THEN a \div b ELSE -((-a) \div b)

\* np.clip(x, -1.0, 1.0) of the float x / FloatDen
Clip(x) == IF x < -FloatDen THEN -FloatDen ELSE IF x > FloatDen THEN FloatDen ELSE x

\* one sample through lines 269-276
to_int16_without_clip(dtype, x) ==
    IF dtype = "int16" THEN x
    ELSE IF dtype = "float32" THEN ToInt16(TruncDiv(x * 32767, FloatDen))
    ELSE ToInt16(x)

to_int16(dtype, x) ==
    IF dtype = "int16" THEN x
    ELSE IF dtype = "float32" THEN ToInt16(TruncDiv(Clip(x) * 32767, FloatDen))
    ELSE ToInt16(x)

\* the waveform as save_audio writes it: flattened, then converted
convert_audio(w) ==
    LET flat == IF w.ndim > 1 THEN Flatten(w.rows) ELSE w.rows[1]
    IN [i \in 1..Len(flat) |-> to_int16(w.dtype, flat[i])]

\* the file system after a write of path
WriteFile(files, path, fmt, samples) ==
    {f \in files : f.path # path}
        \cup {[path |-> path, fmt |-> fmt, samples |-> samples]}

\* os.unlink of path if it exists
unlink_nothing(files, path) == files

Unlink(files, path) == {f \in files : f.path # path}

FileExists(files, path) == \E f \in files : f.path = path

FloatSamples == (-(FloatDen + 1))..(FloatDen + 1)
Int32Samples == {-40000, -32768, 0, 32767, 40000}
Int16Samples == {-32768, -1, 32767}

SamplesOf(dtype) ==
    CASE dtype = "float32" -> FloatSamples
      [] dtype = "int32" -> Int32Samples
      [] OTHER -> Int16Samples

\* the arrays of at most MaxSamples samples: 1-D, and 2-D of every shape
Arrays(V) ==
    {[ndim |-> 1, rows |-> <<x>>] : x \in StrsUpTo(V, MaxSamples)}
        \cup UNION {{[ndim |-> 2, rows |-> r] : r \in [1..sh[1] -> [1..sh[2] -> V]]} :
                     sh \in {x \in (1..MaxSamples) \X (1..MaxSamples) :
                                x[1] * x[2] <= MaxSamples}}

Waveforms ==
    UNION {{[dtype |-> d, ndim |-> a.ndim, rows |-> a.rows] : a \in Arrays(SamplesOf(d))} :
             d \in {"float32", "int32", "int16"}}

Suffixes == {SuffixWav, SuffixMp3, <<".", "M", "P", "3">>, <<".", "o", "g", "g">>}

\* a call: which function the caller calls, the requested path, the
\* waveform (given, or what the synthesis capability returns), and whether
\* `from pydub import AudioSegment` succeeded at import
Requests ==
    [entry : {"save_audio", "text_to_speech_file"},
     path : {[stem |-> <<"o", "u", "t">>, suffix |-> x] : x \in Suffixes},
     waveform : Waveforms,
     PYDUB_AVAILABLE : BOOLEAN]

NoAudio == [dtype |-> "none", samples |-> <<>>]

Init ==
    /\ text = None
    /\ call = NoCall
    /\ ret = <<>>
    /\ req \in Requests
    /\ pc = IF req.entry = "save_audio" THEN "save_audio" ELSE "generate_speech"
    /\ audio = NoAudio
    /\ out_path = NoPath
    /\ fs = {}
    /\ temp_path = NoPath
    /\ result = <<>>
    /\ SpeechIdle
    /\ AppIdle

\* text_to_speech_file, line 341: generate_speech returns the waveform of
\* the synthesis capability, or its failure propagates
GenerateSpeech ==
    /\ pc = "generate_speech"
    /\ \/ /\ pc' = "save_audio"
          /\ UNCHANGED result
       \/ /\ pc' = "done"
          /\ result' = Raise("SynthesisError")
    /\ UNCHANGED <<textVars, speechVars, appVars, req, audio, out_path, fs, temp_path>>

\* save_audio, lines 255-289: mkdir, flatten, convert, dispatch on the suffix
SaveAudioPrepare ==
    /\ pc = "save_audio"
    /\ \/ \* mkdir raises (unwritable parent)
          /\ pc' = "raised"
          /\ result' = Raise("OSError")
          /\ UNCHANGED <<audio, out_path, fs, temp_path>>
       \/ /\ audio' = [dtype |-> "int16", samples |-> convert_audio(req.waveform)]
          /\ UNCHANGED result
          /\ IF Lower(req.path.suffix) = SuffixMp3
             THEN IF ~req.PYDUB_AVAILABLE
                  THEN /\ out_path' = with_suffix(req.path, SuffixWav)
                       /\ pc' = "write_wav"
                       /\ UNCHANGED <<fs, temp_path>>
                  ELSE /\ out_path' = req.path
                       /\ temp_path' = TempWavPath
                       /\ fs' = WriteFile(fs, TempWavPath, "wav", <<>>)
                       /\ pc' = "write_temp"
             ELSE /\ out_path' = req.path
                  /\ pc' = "write_wav"
                  /\ UNCHANGED <<fs, temp_path>>
    /\ UNCHANGED <<textVars, speechVars, appVars, req>>

\* line 293, with the finally clause of lines 311-314 when it raises
WriteTempWav ==
    /\ pc = "write_temp"
    /\ \/ /\ fs' = WriteFile(fs, temp_path, "wav", audio.samples)
          /\ pc' = "transcode"
          /\ UNCHANGED result
       \/ /\ fs' = Unlink(fs, temp_path)
          /\ pc' = "raised"
          /\ result' = Raise("OSError")
    /\ UNCHANGED <<textVars, speechVars, appVars, req, audio, out_path, temp_path>>

\* what save_audio returns having written path: line 300 is a bare return,
\* and after line 322 the function falls off its end
save_audio_return(path) == Ok(None)

\* lines 296-314: the transcoding succeeds and save_audio returns, or it
\* raises (leaving nothing or a partial file at the requested path) and
\* save_audio falls back to WAV; the finally clause removes the temporary
\* file either way
Transcode ==
    /\ pc = "transcode"
    /\ \/ /\ fs' = Unlink(WriteFile(fs, out_path, "mp3", audio.samples), temp_path)
          /\ pc' = "returned"
          /\ result' = save_audio_return(out_path)
          /\ UNCHANGED out_path
       \/ \E partial \in BOOLEAN :
             /\ fs' = Unlink(IF partial THEN WriteFile(fs, out_path, "mp3", <<>>) ELSE fs,
                             temp_path)
             /\ out_path' = with_suffix(out_path, SuffixWav)
             /\ pc' = "write_wav"
             /\ UNCHANGED result
    /\ UNCHANGED <<textVars, speechVars, appVars, req, audio, temp_path>>

\* lines 317-326
WriteWav ==
    /\ pc = "write_wav"
    /\ \/ /\ fs' = WriteFile(fs, out_path, "wav", audio.samples)
          /\ pc' = "returned"
          /\ result' = save_audio_return(out_path)
       \/ /\ pc' = "raised"
          /\ result' = Raise("OSError")
          /\ UNCHANGED fs
    /\ UNCHANGED <<textVars, speechVars, appVars, req, audio, out_path, temp_path>>

\* text_to_speech_file, lines 345-348: actual_path is what save_audio
\* returned, and it is returned; an exception of save_audio propagates
TextToSpeechFileReturn ==
    /\ req.entry = "text_to_speech_file"
    /\ pc \in {"returned", "raised"}
    /\ pc' = "done"
    /\ UNCHANGED <<textVars, speechVars, appVars, req, audio, out_path, fs, temp_path, result>>

Next ==
    \/ GenerateSpeech
    \/ SaveAudioPrepare
    \/ WriteTempWav
    \/ Transcode
    \/ WriteWav
    \/ TextToSpeechFileReturn

Spec == Init /\ [][Next]_vars

\* the call the caller made has returned a value
Returned ==
    /\ result # <<>>
    /\ result.exc = "none"
    /\ \/ req.entry = "save_audio" /\ pc = "returned"
       \/ req.entry = "text_to_speech_file" /\ pc = "done"

\* C1 (as claimed): save_audio, and text_to_speech_file which forwards its
\* result, return the path of the file they wrote: the requested path when
\* the requested format was written, the path with the .wav suffix when an
\* .mp3 request fell back to WAV.
C1_ReturnsActualPath ==
    Returned =>
        /\ result.val.kind = "path"
        /\ FileExists(fs, result.val.path)
        /\ result.val.path =
              IF \E f \in fs : f.path = req.path /\ f.samples = audio.samples
                                  /\ f.fmt = (IF Lower(req.path.suffix) = SuffixMp3
                                              THEN "mp3" ELSE "wav")
              THEN req.path
              ELSE with_suffix(req.path, SuffixWav)

----------------------------------------------------------------------------
(* The Speech Chunker: TTSEngine.preprocess_text, generate_speech and      *)
(* _generate_long_speech, followed by the exporter (text_to_speech_file).  *)
(* The synthesis capability (self.processor and self.model.generate) is    *)
(* opaque: a call returns some array or raises.                            *)

\* " ".join(words)
RECURSIVE JoinWords(_)
JoinWords(words) ==
    IF words = <<>> THEN <<>>
    ELSE IF Len(words) = 1 THEN Head(words)
    ELSE Head(words) \o <<" ">> \o JoinWords(Tail(words))

\* the default max_length of preprocess_text
ENGINE_MAX_LENGTH == 500

\* the length above which generate_speech splits the text, and the default
\* max_chunk_length of split_text
LONG_TEXT_LENGTH == 250
MAX_CHUNK_LENGTH == 250

\* TTSEngine.preprocess_text (lines 90-113) without the appended period
preprocess_text_without_period(s, max_length) ==
    LET joined == JoinWords(SplitWords(s))
    IN IF Len(joined) > max_length THEN Prefix(joined, max_length) ELSE joined

\* TTSEngine.preprocess_text (lines 90-113)
preprocess_text(s, max_length) ==
    LET joined == JoinWords(SplitWords(s))
        cut == IF Len(joined) > max_length THEN Prefix(joined, max_length) ELSE joined
    IN IF cut # <<>> /\ cut[Len(cut)] \notin {".", "!", "?"}
       THEN cut \o <<".">>
       ELSE cut

\* one call of the synthesis capability
ModelCall(chunk, voice_preset) == [text |-> chunk, voice_preset |-> voice_preset]

\* speech_output[0].cpu().numpy(), flattened when it has more than one
\* dimension
flatten_output(array) == IF array.ndim > 1 THEN Flatten(array.rows) ELSE array.rows[1]

\* np.concatenate(audio_chunks)
concatenate_newest_first(audio_chunks) ==
    Flatten([k \in 1..Len(audio_chunks) |-> audio_chunks[Len(audio_chunks) + 1 - k]])

concatenate(audio_chunks) == Flatten(audio_chunks)

\* the audio_array generate_speech returns, as save_audio receives it
Float32Array(samples) == [dtype |-> "float32", ndim |-> 1, rows |-> <<samples>>]

\* the state of the pipeline that a chunk's synthesis changes
ChunkState == [speech |-> speech, model_calls |-> model_calls, pc |-> pc, result |-> result]

\* one iteration of `for i, chunk in enumerate(chunks)` (lines 215-236):
\* the capability is called with the chunk; its array joins audio_chunks,
\* or its exception leaves _generate_long_speech, generate_speech and
\* text_to_speech_file
generate_chunk_continuing_after_failure(st, voice_preset, outcome) ==
    LET i == Len(st.speech.audio_chunks) + 1
        called == Append(st.model_calls, ModelCall(st.speech.chunks[i], voice_preset))
    IN IF outcome.ok
       THEN [st EXCEPT !.model_calls = called,
                       !.speech.audio_chunks = Append(@, flatten_output(outcome.array))]
       ELSE [st EXCEPT !.model_calls = called,
                       !.speech.audio_chunks = Append(@, <<>>),
                       !.result = Raise("SynthesisError")]

generate_chunk(st, voice_preset, outcome) ==
    LET i == Len(st.speech.audio_chunks) + 1
        called == Append(st.model_calls, ModelCall(st.speech.chunks[i], voice_preset))
    IN IF outcome.ok
       THEN [st EXCEPT !.model_calls = called,
                       !.speech.audio_chunks = Append(@, flatten_output(outcome.array))]
       ELSE [st EXCEPT !.model_calls = called,
                       !.pc = "done",
                       !.result = Raise("SynthesisError")]

\* the texts given to text_to_speech_file: n - 1 letters and a terminator
Sentence(n, terminator) == [i \in 1..n |-> IF i = n THEN terminator ELSE "a"]

SpeechTexts ==
    {<<"H", "i">>,
     Sentence(250, "."),
     Sentence(250, "a"),
     Sentence(251, "."),
     [i \in 1..251 |-> "."],
     Sentence(126, ".") \o Sentence(126, "!"),
     Sentence(100, ".") \o <<" ", " ">> \o Sentence(100, "?") \o <<" ">> \o Sentence(100, "."),
     Sentence(200, ".") \o Sentence(200, ".") \o Sentence(200, ".")}

VoicePresets == {None, Str(<<"v", "2">>)}

\* what a call of the capability returns: up to MaxSamples float samples,
\* 1-D, or 2-D to be flattened
ChunkSamples == {-(FloatDen + 1), FloatDen}

ChunkArrays ==
    {[ndim |-> 1, rows |-> <<x>>] : x \in StrsUpTo(ChunkSamples, MaxSamples) \ {<<>>}}
        \cup {[ndim |-> 2, rows |-> <<<<FloatDen>>, <<0>>>>]}

ChunkOutcomes == {[ok |-> TRUE, array |-> a] : a \in ChunkArrays}
                     \cup {[ok |-> FALSE, array |-> [ndim |-> 1, rows |-> <<<<>>>>]]}

NoWaveform == [dtype |-> "none", ndim |-> 1, rows |-> <<<<>>>>]

SpeechRequests ==
    [entry : {"text_to_speech_file"},
     path : {[stem |-> <<"o", "u", "t">>, suffix |-> x] : x \in {SuffixWav, SuffixMp3}},
     waveform : {NoWaveform},
     PYDUB_AVAILABLE : BOOLEAN,
     voice_preset : VoicePresets]

InitSpeech ==
    /\ text \in {Str(s) : s \in SpeechTexts}
    /\ call = NoCall
    /\ ret = <<>>
    /\ req \in SpeechRequests
    /\ pc = "preprocess_text"
    /\ audio = NoAudio
    /\ out_path = NoPath
    /\ fs = {}
    /\ temp_path = NoPath
    /\ result = <<>>
    /\ SpeechIdle
    /\ AppIdle

\* generate_speech, lines 159-163
PreprocessText ==
    /\ pc = "preprocess_text"
    /\ speech' = [speech EXCEPT !.text = preprocess_text(text.s, ENGINE_MAX_LENGTH)]
    /\ pc' = IF Len(speech'.text) > LONG_TEXT_LENGTH THEN "split_text" ELSE "generate_short"
    /\ UNCHANGED <<textVars, appVars, model_calls, req, audio, out_path, fs, temp_path, result>>

\* generate_speech, lines 166-196: one call of the capability on the whole
\* text
GenerateShort ==
    /\ pc = "generate_short"
    /\ model_calls' = Append(model_calls, ModelCall(speech.text, req.voice_preset))
    /\ \E outcome \in ChunkOutcomes :
          IF outcome.ok
          THEN /\ req' = [req EXCEPT !.waveform = Float32Array(flatten_output(outcome.array))]
               /\ pc' = "save_audio"
               /\ UNCHANGED result
          ELSE /\ pc' = "done"
               /\ result' = Raise("SynthesisError")
               /\ UNCHANGED req
    /\ UNCHANGED <<textVars, appVars, speech, audio, out_path, fs, temp_path>>

\* _generate_long_speech, lines 209-213
SplitChunks ==
    /\ pc = "split_text"
    /\ speech' = [speech EXCEPT !.chunks = split_text(speech.text, MAX_CHUNK_LENGTH)]
    /\ pc' = "chunk_loop"
    /\ UNCHANGED <<textVars, appVars, model_calls, req, audio, out_path, fs, temp_path, result>>

\* _generate_long_speech, lines 215-236
GenerateChunk ==
    /\ pc = "chunk_loop"
    /\ Len(speech.audio_chunks) < Len(speech.chunks)
    /\ \E outcome \in ChunkOutcomes :
          LET st == generate_chunk(ChunkState, req.voice_preset, outcome)
          IN /\ speech' = st.speech
             /\ model_calls' = st.model_calls
             /\ pc' = st.pc
             /\ result' = st.result
    /\ UNCHANGED <<textVars, appVars, req, audio, out_path, fs, temp_path>>

\* _generate_long_speech, lines 239-243, and the return through
\* generate_speech to text_to_speech_file; np.concatenate of an empty list
\* raises ValueError
Concatenate ==
    /\ pc = "chunk_loop"
    /\ Len(speech.audio_chunks) = Len(speech.chunks)
    /\ IF speech.chunks = <<>>
       THEN /\ pc' = "done"
            /\ result' = Raise("ValueError")
            /\ UNCHANGED req
       ELSE /\ req' = [req EXCEPT !.waveform = Float32Array(concatenate(speech.audio_chunks))]
            /\ pc' = "save_audio"
            /\ UNCHANGED result
    /\ UNCHANGED <<textVars, appVars, speechVars, audio, out_path, fs, temp_path>>

NextSpeech ==
    \/ PreprocessText
    \/ GenerateShort
    \/ SplitChunks
    \/ GenerateChunk
    \/ Concatenate
    \/ SaveAudioPrepare
    \/ WriteTempWav
    \/ Transcode
    \/ WriteWav
    \/ TextToSpeechFileReturn

SpecSpeech == InitSpeech /\ [][NextSpeech]_vars

----------------------------------------------------------------------------
(* Properties of chunked synthesis, checked under SpecSpeech.              *)

\* _generate_long_speech has been entered and has split the text
InLongSpeech ==
    /\ Len(speech.text) > LONG_TEXT_LENGTH
    /\ pc \notin {"preprocess_text", "split_text"}

\* the number of samples of the first k chunks
RECURSIVE SamplesBefore(_, _)
SamplesBefore(audio_chunks, k) ==
    IF k = 0 THEN 0 ELSE SamplesBefore(audio_chunks, k - 1) + Len(audio_chunks[k])

\* C11: _generate_long_speech calls the synthesis capability once per chunk
\* of split_text, in chunk order, each call with the request's voice preset
\* and none repeated; the waveform it returns is the chunks' sample
\* sequences one after the other with nothing in between, so it has the sum
\* of their sample counts (N * L when each of N chunks gave L samples).
C11_ChunkedSynthesis ==
    InLongSpeech =>
        /\ Len(model_calls) <= Len(speech.chunks)
        /\ \A k \in 1..Len(model_calls) :
              model_calls[k] = [text |-> speech.chunks[k], voice_preset |-> req.voice_preset]
        /\ Len(model_calls) \in {Len(speech.audio_chunks), Len(speech.audio_chunks) + 1}
        /\ req.waveform # NoWaveform =>
              LET N == Len(speech.chunks)
                  full_audio == req.waveform.rows[1]
              IN /\ Len(model_calls) = N
                 /\ Len(speech.audio_chunks) = N
                 /\ req.waveform.ndim = 1
                 /\ Len(full_audio) = SamplesBefore(speech.audio_chunks, N)
                 /\ \A k \in 1..N :
                       \A i \in 1..Len(speech.audio_chunks[k]) :
                           full_audio[SamplesBefore(speech.audio_chunks, k - 1) + i]
                               = speech.audio_chunks[k][i]
                 /\ \A L \in 1..MaxSamples :
                       (\A k \in 1..N : Len(speech.audio_chunks[k]) = L)
                           => Len(full_audio) = N * L

\* three chunks that gave different samples in different numbers were
\* concatenated and returned
C11_Witness ==
    /\ InLongSpeech
    /\ Len(speech.chunks) = 3
    /\ req.waveform # NoWaveform
    /\ Len(speech.audio_chunks[1]) # Len(speech.audio_chunks[2])
    /\ speech.audio_chunks[1][1] # speech.audio_chunks[2][1]
    /\ speech.audio_chunks[2] # speech.audio_chunks[3]

\* C12: when the synthesis capability fails on chunk k, the failed call is
\* the last one made (no later chunk is synthesized), the failure is what
\* text_to_speech_file raises, no waveform is returned, save_audio is never
\* entered and no file is written.
C12_FailureAborts ==
    (result # <<>> /\ result.exc = "SynthesisError") =>
        /\ pc = "done"
        /\ req.waveform = NoWaveform
        /\ audio = NoAudio
        /\ out_path = NoPath
        /\ temp_path = NoPath
        /\ fs = {}
        /\ InLongSpeech =>
              /\ Len(model_calls) = Len(speech.audio_chunks) + 1
              /\ Len(model_calls) <= Len(speech.chunks)

\* the second of three chunks failed
C12_Witness ==
    /\ result # <<>>
    /\ result.exc = "SynthesisError"
    /\ InLongSpeech
    /\ Len(speech.chunks) = 3
    /\ Len(model_calls) = 2
    /\ pc = "done"


\* generate_speech made its one direct call of the capability, or is about to
ShortTaken ==
    \/ pc = "generate_short"
    \/ speech.chunks = <<>> /\ Len(model_calls) = 1

\* generate_speech returned what _generate_long_speech does
LongTaken ==
    \/ pc \in {"split_text", "chunk_loop"}
    \/ speech.chunks # <<>>
    \/ result # <<>> /\ result.exc = "ValueError"

EndsSentence(s) == s # <<>> /\ s[Len(s)] \in {".", "!", "?"}

\* C22 as stated: for a NormalizedText passed to generate_speech, synthesis
\* is one direct call of the capability exactly when the length of that text
\* is <= 250, and chunked synthesis exactly when it is > 250.
C22_ThresholdOnNormalizedText ==
    (pc # "preprocess_text" /\ WhitespaceCollapsed(text.s)) =>
        /\ ShortTaken <=> Len(text.s) <= LONG_TEXT_LENGTH
        /\ LongTaken <=> Len(text.s) > LONG_TEXT_LENGTH

\* C22, amended: generate_speech compares 250 with the length of the text its
\* own preprocess_text returns (whitespace joined, cut to 500 characters, a
\* period appended when the text does not end with a terminator): synthesis
\* is one direct call with that whole text exactly when that length is
\* <= 250 and chunked synthesis exactly when it is > 250, so a NormalizedText
\* of up to 500 characters is synthesized directly exactly when its length,
\* plus one if it lacks a final terminator, is <= 250.
C22_ThresholdAfterPreprocess ==
    pc # "preprocess_text" =>
        /\ ShortTaken # LongTaken
        /\ ShortTaken <=> Len(speech.text) <= LONG_TEXT_LENGTH
        /\ LongTaken <=> Len(speech.text) > LONG_TEXT_LENGTH
        /\ (ShortTaken /\ pc # "generate_short")
              => model_calls = <<[text |-> speech.text, voice_preset |-> req.voice_preset]>>
        /\ (WhitespaceCollapsed(text.s) /\ Len(text.s) <= ENGINE_MAX_LENGTH) =>
              /\ speech.text = IF EndsSentence(text.s) THEN text.s ELSE text.s \o <<".">>
              /\ ShortTaken <=>
                    Len(text.s) + (IF EndsSentence(text.s) THEN 0 ELSE 1) <= LONG_TEXT_LENGTH

\* a NormalizedText of 250 characters with no final terminator went to
\* chunked synthesis, as one chunk of 251 characters
C22_Witness ==
    /\ WhitespaceCollapsed(text.s)
    /\ Len(text.s) = LONG_TEXT_LENGTH
    /\ LongTaken
    /\ Len(speech.chunks) = 1
    /\ Len(model_calls) = 1
    /\ Len(model_calls[1].text) = LONG_TEXT_LENGTH + 1


----------------------------------------------------------------------------
(* Properties of the Audio Exporter, checked under Spec.                   *)

\* save_audio has returned or raised
SaveAudioLeft == pc \in {"returned", "raised"} \/ (pc = "done" /\ audio # NoAudio)

\* an .mp3 path was requested
Mp3Requested == Lower(req.path.suffix) = SuffixMp3

\* save_audio changed its output path to the .wav one (lines 283, 308)
FellBack == Mp3Requested /\ out_path # NoPath /\ out_path # req.path

\* C13: whenever save_audio has created the temporary WAV file, that file
\* no longer exists once save_audio has returned or raised: after a
\* successful transcoding, after a failed transcoding and the fallback, and
\* when writing the temporary file itself failed.
C13_TempRemoved ==
    (temp_path # NoPath /\ SaveAudioLeft) => ~FileExists(fs, temp_path)

\* the transcoding failed leaving a partial file, the fallback wrote the
\* WAV file, and save_audio returned
C13_Witness ==
    /\ temp_path # NoPath
    /\ pc = "returned"
    /\ FellBack
    /\ \E f \in fs : f.path = req.path /\ f.fmt = "mp3"
    /\ \E f \in fs : f.path = out_path /\ f.fmt = "wav"

\* C14: when an .mp3 path is requested and pydub is unavailable or the
\* transcoding raises, save_audio goes on without an exception to write the
\* WAV file at the requested path with the suffix .wav; an exception of
\* save_audio is always one of the other failures (creating the directory,
\* writing a file), never the transcoding's.
C14_Mp3Fallback ==
    /\ (Mp3Requested /\ ~req.PYDUB_AVAILABLE /\ out_path # NoPath) => FellBack
    /\ FellBack =>
          /\ out_path = [stem |-> req.path.stem, suffix |-> SuffixWav]
          /\ pc \in {"write_wav", "returned", "raised", "done"}
          /\ pc = "write_wav" => result = <<>>
          /\ (pc \in {"returned", "done"} /\ result.exc = "none") =>
                \E f \in fs : /\ f.path = [stem |-> req.path.stem, suffix |-> SuffixWav]
                              /\ f.fmt = "wav"
                              /\ f.samples = audio.samples
    /\ (result # <<>> /\ result.exc # "none" /\ audio # NoAudio) => result.exc = "OSError"

\* pydub was there, the transcoding raised, and the WAV file was written
\* under the .wav suffix with no exception
C14_Witness ==
    /\ FellBack
    /\ req.PYDUB_AVAILABLE
    /\ temp_path # NoPath
    /\ pc = "returned"
    /\ result.exc = "none"
    /\ req.path.suffix = <<".", "M", "P", "3">>
    /\ audio.samples # <<>>

\* the number of samples of a waveform
SampleCount(w) == IF w.ndim > 1 THEN Len(w.rows) * Len(w.rows[1]) ELSE Len(w.rows[1])

\* the 16-bit PCM data save_audio has written: the WAV files, but for the
\* temporary file while it is still the empty file NamedTemporaryFile made
WrittenPcm == {f \in fs : f.fmt = "wav" /\ ~(f.path = temp_path /\ pc = "write_temp")}

\* the input samples in flattened order
InputSamples == IF req.waveform.ndim > 1 THEN Flatten(req.waveform.rows) ELSE req.waveform.rows[1]

Abs(n) == IF n < 0 THEN -n ELSE n

\* C15 (as claimed): every sample save_audio writes as 16-bit PCM lies in
\* [-32767, 32767], and as many samples are written as the flattened input
\* has.
C15_SamplesInRange ==
    \A f \in WrittenPcm :
        /\ Len(f.samples) = SampleCount(req.waveform)
        /\ \A i \in 1..Len(f.samples) : f.samples[i] \in (-32767)..32767

\* C15 (amended): as many samples are written as the flattened input has;
\* a float sample is clipped to [-1.0, 1.0], scaled by 32767 and truncated
\* towards zero, so it lies in [-32767, 32767]; a sample that is already an
\* integer keeps its low 16 bits, so it lies in [-32768, 32767] and -32768
\* can be written.
C15_SamplesConverted ==
    \A f \in WrittenPcm :
        /\ Len(f.samples) = SampleCount(req.waveform)
        /\ \A i \in 1..Len(f.samples) :
              LET x == InputSamples[i]
                  y == f.samples[i]
                  clipped == IF x > FloatDen THEN FloatDen
                             ELSE IF x < -FloatDen THEN -FloatDen ELSE x
              IN IF req.waveform.dtype = "float32"
                 THEN /\ y \in (-32767)..32767
                      /\ Abs(y) * FloatDen <= Abs(clipped) * 32767
                      /\ Abs(clipped) * 32767 < (Abs(y) + 1) * FloatDen
                      /\ y * clipped >= 0
                 ELSE /\ y \in (-32768)..32767
                      /\ (y - x) % 65536 = 0
                      /\ req.waveform.dtype = "int16" => y = x

\* a 2-D float waveform with a sample above 1.0 was written to the
\* requested WAV path
C15_Witness ==
    /\ req.waveform.dtype = "float32"
    /\ req.waveform.ndim = 2
    /\ \E i \in 1..Len(InputSamples) : InputSamples[i] > FloatDen
    /\ \E f \in WrittenPcm : f.path = req.path /\ 32767 \in {f.samples[i] : i \in 1..Len(f.samples)}

----------------------------------------------------------------------------
(* The web application (app.py): the handlers synthesize and serve_audio,  *)
(* the lazily created engine of get_tts_engine and cleanup_old_files, each *)
(* request on a thread of its own, a step of a handler being the code up   *)
(* to its next access to the shared engine or to the audio directory.      *)

\* Config.MAX_TEXT_LENGTH, its default
MAX_TEXT_LENGTH == 2000

Threads == 1..MaxThreads

\* the audio file of request t: f"{audio_id}.{requested_format}"
AudioFilename(t, format) == [stem |-> NatStr(t), suffix |-> <<".">> \o format]

FormatWav == <<"w", "a", "v">>
FormatMp3 == <<"m", "p", "3">>

\* files found in AUDIO_OUTPUT_DIR when the requests arrive: one older than
\* AUDIO_RETENTION_TIME, one not
OldFile == [name |-> [stem |-> <<"o", "l", "d">>, suffix |-> SuffixWav], aged |-> TRUE]
RecentFile == [name |-> [stem |-> <<"n", "e", "w">>, suffix |-> SuffixMp3], aged |-> FALSE]

\* request.get_json(): nothing, an object without 'text', or one with it
NoBody == [json |-> "none", text |-> None]
Body(t) == [json |-> "text", text |-> t]

SynthesizeBodies ==
    {NoBody, [json |-> "no_text", text |-> None]}
        \cup {Body(t) : t \in {Str(<<>>), Str(<<"H", "i">>), IntVal(7),
                               Str(<<" ", "v", ".", " ", "a">>),
                               Str([i \in 1..(MaxLimit + 1) |-> "a"])}}

\* a handler's locals
Handler(kind, body, filename) ==
    [kind |-> kind, pc |-> "start", body |-> body, filename |-> filename,
     status |-> 0, error |-> "", audio_filename |-> NoPath, processed_text |-> <<>>,
     engine |-> 0, inited |-> FALSE, synthesized |-> FALSE, written |-> NoPath,
     audio_url |-> NoPath, sweep |-> {}]

AppRequests ==
    {Handler("synthesize", b, NoPath) : b \in SynthesizeBodies}
        \cup {Handler("serve_audio", NoBody, n) :
                 n \in {OldFile.name, AudioFilename(1, FormatMp3), AudioFilename(1, FormatWav)}}
        \cup {Handler("cleanup_old_files", NoBody, NoPath)}

\* app.config and whether pydub was importable; MAX_TEXT_LENGTH is its
\* default or the value of the environment variable of that name
Configs ==
    [AUDIO_FORMAT : {FormatWav}, PYDUB_AVAILABLE : {TRUE},
     MAX_TEXT_LENGTH : {MAX_TEXT_LENGTH, MaxLimit}]
        \cup [AUDIO_FORMAT : {FormatMp3}, PYDUB_AVAILABLE : BOOLEAN,
              MAX_TEXT_LENGTH : {MAX_TEXT_LENGTH}]

InitApp ==
    /\ text = None
    /\ call = NoCall
    /\ ret = <<>>
    /\ pc = "idle"
    /\ req = <<>>
    /\ audio = <<>>
    /\ out_path = NoPath
    /\ fs = {}
    /\ temp_path = NoPath
    /\ result = <<>>
    /\ SpeechIdle
    /\ tts_engine = 0
    /\ loads = 0
    /\ handlers \in [Threads -> AppRequests]
    /\ audio_dir = {OldFile, RecentFile}
    /\ config \in Configs

Respond(h, status, error) == [h EXCEPT !.pc = "done", !.status = status, !.error = error]

InDir(dir, name) == \E f \in dir : f.name = name

\* the response to a rejected text: error_msg of validate_text
rejection(h, max_length) ==
    Respond(h, 400, validate_text(h.body.text, max_length, NoArg).reason)

\* synthesize, lines 91-128: the body is read, the text validated and
\* preprocessed, the file name made
validate_request_without_validation(h, t, format, max_length) ==
    IF h.body.json # "text" THEN Respond(h, 400, "No text provided")
    ELSE [h EXCEPT !.pc = "get_tts_engine",
                   !.processed_text = preprocess_for_tts(h.body.text, max_length),
                   !.audio_filename = AudioFilename(t, format)]

validate_request(h, t, format, max_length) ==
    IF h.body.json # "text" THEN Respond(h, 400, "No text provided")
    ELSE IF ~validate_text(h.body.text, max_length, NoArg).valid
    THEN rejection(h, max_length)
    ELSE [h EXCEPT !.pc = "get_tts_engine",
                   !.processed_text = preprocess_for_tts(h.body.text, max_length),
                   !.audio_filename = AudioFilename(t, format)]

SynthesizeValidate(t) ==
    /\ handlers[t].kind = "synthesize"
    /\ handlers[t].pc = "start"
    /\ handlers' = [handlers EXCEPT ![t] = validate_request(@, t, config.AUDIO_FORMAT,
                                                           config.MAX_TEXT_LENGTH)]
    /\ UNCHANGED <<textVars, saveVars, speechVars, tts_engine, loads, audio_dir, config>>

\* get_tts_engine, line 40: `if tts_engine is None`
GetEngineCheck(t) ==
    /\ handlers[t].kind = "synthesize"
    /\ handlers[t].pc = "get_tts_engine"
    /\ handlers' = [handlers EXCEPT ![t].pc = IF tts_engine = 0 THEN "construct" ELSE "return_engine"]
    /\ UNCHANGED <<textVars, saveVars, speechVars, tts_engine, loads, audio_dir, config>>

\* get_tts_engine, lines 41-48: TTSEngine(...) loads the model and the
\* global is assigned, or the load raises and synthesize answers 500
ConstructEngine(t) ==
    /\ handlers[t].kind = "synthesize"
    /\ handlers[t].pc = "construct"
    /\ \/ /\ loads' = loads + 1
          /\ tts_engine' = loads + 1
          /\ handlers' = [handlers EXCEPT ![t].pc = "return_engine", ![t].inited = TRUE]
       \/ /\ handlers' = [handlers EXCEPT ![t] = Respond(@, 500, "Synthesis failed")]
          /\ UNCHANGED <<tts_engine, loads>>
    /\ UNCHANGED <<textVars, saveVars, speechVars, audio_dir, config>>

\* get_tts_engine, line 49: `return tts_engine`
ReturnEngine(t) ==
    /\ handlers[t].kind = "synthesize"
    /\ handlers[t].pc = "return_engine"
    /\ handlers' = [handlers EXCEPT ![t].pc = "text_to_speech_file", ![t].engine = tts_engine]
    /\ UNCHANGED <<textVars, saveVars, speechVars, tts_engine, loads, audio_dir, config>>

\* what text_to_speech_file(text, path) leaves behind (lines 328-348 and
\* 245-326): it raised or not, the path save_audio wrote the audio to, and
\* the files now at the requested path and its .wav sibling
tts_outcomes(path, pydub) ==
    LET wav == with_suffix(path, SuffixWav)
        raised == [raised |-> TRUE, written |-> NoPath, files |-> {}]
    IN IF Lower(path.suffix) # SuffixMp3
       THEN {raised, [raised |-> FALSE, written |-> path, files |-> {path}]}
       ELSE IF ~pydub
       THEN {raised, [raised |-> FALSE, written |-> wav, files |-> {wav}]}
       ELSE {raised,
             [raised |-> TRUE, written |-> NoPath, files |-> {path}],
             [raised |-> FALSE, written |-> path, files |-> {path}],
             [raised |-> FALSE, written |-> wav, files |-> {wav}],
             [raised |-> FALSE, written |-> wav, files |-> {path, wav}]}

\* the name in audio_url (line 139: actual_filename = audio_filename)
actual_filename(h) == h.audio_filename

\* synthesize, lines 132-159: the audio is synthesized and saved and the
\* success response built, or an exception becomes the 500 response
TextToSpeechFile(t) ==
    /\ handlers[t].kind = "synthesize"
    /\ handlers[t].pc = "text_to_speech_file"
    /\ \E o \in tts_outcomes(handlers[t].audio_filename, config.PYDUB_AVAILABLE) :
          /\ audio_dir' = {f \in audio_dir : f.name \notin o.files}
                              \cup {[name |-> n, aged |-> FALSE] : n \in o.files}
          /\ handlers' =
                [handlers EXCEPT ![t] =
                    IF o.raised
                    THEN [Respond(@, 500, "Synthesis failed")
                             EXCEPT !.synthesized = TRUE]
                    ELSE [Respond(@, 200, "")
                             EXCEPT !.synthesized = TRUE,
                                    !.written = o.written,
                                    !.audio_url = actual_filename(handlers[t])]]
    /\ UNCHANGED <<textVars, saveVars, speechVars, tts_engine, loads, config>>

\* serve_audio, lines 170-176
ServeCheckExists(t) ==
    /\ handlers[t].kind = "serve_audio"
    /\ handlers[t].pc = "start"
    /\ handlers' = [handlers EXCEPT ![t] =
                       IF InDir(audio_dir, @.filename)
                       THEN [@ EXCEPT !.pc = "stat"]
                       ELSE Respond(@, 404, "Audio file not found")]
    /\ UNCHANGED <<textVars, saveVars, speechVars, tts_engine, loads, audio_dir, config>>

\* the response of serve_audio when a call on the file raises (lines
\* 197-202)
serve_failure(h) == Respond(h, 500, "Failed to serve audio file")

\* serve_audio, lines 179-180: audio_path.stat() raises when the file is
\* gone
ServeStat(t) ==
    /\ handlers[t].kind = "serve_audio"
    /\ handlers[t].pc = "stat"
    /\ handlers' = [handlers EXCEPT ![t] =
                       IF InDir(audio_dir, @.filename)
                       THEN [@ EXCEPT !.pc = "send_file"]
                       ELSE serve_failure(@)]
    /\ UNCHANGED <<textVars, saveVars, speechVars, tts_engine, loads, audio_dir, config>>

\* serve_audio, lines 183-195: send_file opens the file, and raises when
\* it is gone
ServeSendFile(t) ==
    /\ handlers[t].kind = "serve_audio"
    /\ handlers[t].pc = "send_file"
    /\ handlers' = [handlers EXCEPT ![t] =
                       IF InDir(audio_dir, @.filename)
                       THEN Respond(@, 200, "")
                       ELSE serve_failure(@)]
    /\ UNCHANGED <<textVars, saveVars, speechVars, tts_engine, loads, audio_dir, config>>

\* cleanup_old_files, lines 287-291: glob lists the directory
CleanupGlob(t) ==
    /\ handlers[t].kind = "cleanup_old_files"
    /\ handlers[t].pc = "start"
    /\ handlers' = [handlers EXCEPT ![t].pc = "sweep",
                                    ![t].sweep = {f.name : f \in audio_dir}]
    /\ UNCHANGED <<textVars, saveVars, speechVars, tts_engine, loads, audio_dir, config>>

\* cleanup_old_files, lines 291-301: the next listed file is removed when
\* it is an audio file older than the retention time; stat or unlink of a
\* file that is gone raises, which ends the sweep
CleanupFile(t) ==
    /\ handlers[t].kind = "cleanup_old_files"
    /\ handlers[t].pc = "sweep"
    /\ IF handlers[t].sweep = {}
       THEN /\ handlers' = [handlers EXCEPT ![t].pc = "done"]
            /\ UNCHANGED audio_dir
       ELSE \E name \in handlers[t].sweep :
               IF Lower(name.suffix) \notin {SuffixWav, SuffixMp3}
               THEN /\ handlers' = [handlers EXCEPT ![t].sweep = @ \ {name}]
                    /\ UNCHANGED audio_dir
               ELSE IF ~InDir(audio_dir, name)
               THEN /\ handlers' = [handlers EXCEPT ![t].pc = "done", ![t].sweep = {}]
                    /\ UNCHANGED audio_dir
               ELSE /\ handlers' = [handlers EXCEPT ![t].sweep = @ \ {name}]
                    /\ audio_dir' = {f \in audio_dir : ~(f.name = name /\ f.aged)}
    /\ UNCHANGED <<textVars, saveVars, speechVars, tts_engine, loads, config>>

NextApp ==
    \E t \in Threads :
        \/ SynthesizeValidate(t)
        \/ GetEngineCheck(t)
        \/ ConstructEngine(t)
        \/ ReturnEngine(t)
        \/ TextToSpeechFile(t)
        \/ ServeCheckExists(t)
        \/ ServeStat(t)
        \/ ServeSendFile(t)
        \/ CleanupGlob(t)
        \/ CleanupFile(t)

SpecApp == InitApp /\ [][NextApp]_vars

----------------------------------------------------------------------------
(* Properties of the web application, checked under SpecApp.               *)

\* the handler is a synthesize request whose text validate_text has seen
\* and rejects
Rejected(h) ==
    /\ h.kind = "synthesize"
    /\ h.pc # "start"
    /\ h.body.json = "text"
    /\ ~validate_text(h.body.text, config.MAX_TEXT_LENGTH, NoArg).valid

\* C16: a synthesize request whose text validate_text rejects ends with the
\* 400 response carrying validate_text's reason, and within that request
\* the engine is neither constructed nor obtained, the synthesis capability
\* is not called and no file is written.
C16_ValidationFirst ==
    \A t \in Threads :
        Rejected(handlers[t]) =>
            /\ handlers[t].pc = "done"
            /\ handlers[t].status = 400
            /\ handlers[t].error \in {"empty", "too_short", "too_long"}
            /\ handlers[t].error =
                  validate_text(handlers[t].body.text, config.MAX_TEXT_LENGTH, NoArg).reason
            /\ ~handlers[t].inited
            /\ handlers[t].engine = 0
            /\ ~handlers[t].synthesized
            /\ handlers[t].written = NoPath
            /\ \A f \in audio_dir : f.name.stem # NatStr(t)

\* one request was rejected for a text that is too long while another
\* constructed the engine and wrote its audio file
C16_Witness ==
    \E t, u \in Threads :
        /\ Rejected(handlers[t])
        /\ handlers[t].error = "too_long"
        /\ handlers[u].inited
        /\ handlers[u].status = 200
        /\ InDir(audio_dir, handlers[u].written)

\* C17 (as claimed): however the requests interleave, a TTSEngine is
\* constructed at most once and every request that obtained the engine
\* obtained the same instance.
C17_SingleEngine ==
    /\ loads <= 1
    /\ \A t, u \in Threads :
          (handlers[t].engine # 0 /\ handlers[u].engine # 0)
              => handlers[t].engine = handlers[u].engine

\* C18 (as claimed): serve_audio answers a request for a file that is not
\* there with 404 'Audio file not found' and never with the 500 of a
\* failure, also when cleanup_old_files removes the file during the
\* request.
C18_NotFoundIs404 ==
    \A t \in Threads :
        (handlers[t].kind = "serve_audio" /\ handlers[t].pc = "done") =>
            /\ handlers[t].status \in {200, 404}
            /\ handlers[t].status = 404 => handlers[t].error = "Audio file not found"

\* C19 (as claimed): when synthesize reports success, the file named in
\* audio_url is the file save_audio wrote, also when an .mp3 request fell
\* back to WAV.
C19_UrlNamesWrittenFile ==
    \A t \in Threads :
        (handlers[t].kind = "synthesize" /\ handlers[t].status = 200) =>
            /\ handlers[t].audio_url = handlers[t].written
            /\ InDir(audio_dir, handlers[t].written) => InDir(audio_dir, handlers[t].audio_url)


----------------------------------------------------------------------------
(* The request's text on its way through the engine, checked under         *)
(* SpecSpeech.                                                             *)

\* the texts of the calls of the capability, one after the other
CallTexts(calls) == Flatten([k \in 1..Len(calls) |-> calls[k].text])

\* the characters of s that are neither sentence terminators nor spaces
Spoken(s) == SelectSeq(s, LAMBDA c : c \notin {".", "!", "?", " "})

\* C23: every sentence of a text that validate_text accepted and
\* preprocess_for_tts returned (3 to 2000 characters, whitespace collapsed)
\* is handed to the synthesis capability: once the waveform is returned the
\* texts given to the model, in order, hold every character of the processed
\* text other than terminators and spaces, nothing being cut off inside the
\* engine.
C23_WholeTextSynthesized ==
    (/\ req.waveform # NoWaveform
     /\ WhitespaceCollapsed(text.s)
     /\ Len(text.s) \in MIN_TEXT_LENGTH..MAX_TEXT_LENGTH)
        => Spoken(CallTexts(model_calls)) = Spoken(text.s)


\* C24: for every text longer than 250 characters that reaches
\* _generate_long_speech (validated text made only of sentence terminators
\* and spaces included) split_text returns at least one chunk, so the
\* concatenation has at least one waveform and chunked synthesis never fails
\* for lack of chunks.
C24_AtLeastOneChunk ==
    (/\ InLongSpeech
     /\ WhitespaceCollapsed(text.s)
     /\ Len(text.s) \in MIN_TEXT_LENGTH..MAX_TEXT_LENGTH)
        => /\ speech.chunks # <<>>
           /\ ~(result # <<>> /\ result.exc = "ValueError")

----------------------------------------------------------------------------
(* The truncation step of preprocess_for_tts, checked under SpecText.      *)

\* the cleaned and expanded text: steps 1 to 3
CleanedExpanded(t) == clean_text(expand_abbreviations(Str(clean_text(t))).val)

\* the 0-based position of the last space among the first n characters of
\* s, -1 when there is none
LastSpaceWithin(s, n) ==
    LET spaces == {i \in 1..n : s[i] = " "}
    IN IF spaces = {} THEN -1
       ELSE (CHOOSE i \in spaces : \A j \in spaces : j <= i) - 1

\* preprocess_for_tts was called on a text whose cleaned and expanded form
\* is longer than max_length
Truncating ==
    /\ call.op = "preprocess_for_tts"
    /\ Truthy(text)
    /\ call.max_length >= 0
    /\ Len(CleanedExpanded(text)) > call.max_length

\* C20 (as claimed): a text longer than max_length is cut at the last space
\* of its first max_length characters when that space's position is at
\* least 80% of max_length, the position equal to 80% included; otherwise
\* the result is the first max_length characters.
C20_CutAtLeast80 ==
    Truncating =>
        LET full == CleanedExpanded(text)
            last_space == LastSpaceWithin(full, call.max_length)
        IN ret.val = IF last_space >= 0 /\ 10 * last_space >= 8 * call.max_length
                     THEN SubSeq(full, 1, last_space)
                     ELSE SubSeq(full, 1, call.max_length)

\* C20 (amended): the cut is made at the last space only when its position
\* is more than 80% of max_length; at exactly 80%, and below, the result is
\* the first max_length characters.
C20_CutAbove80 ==
    Truncating =>
        LET full == CleanedExpanded(text)
            last_space == LastSpaceWithin(full, call.max_length)
        IN ret.val = IF last_space >= 0 /\ 10 * last_space > 8 * call.max_length
                     THEN SubSeq(full, 1, last_space)
                     ELSE SubSeq(full, 1, call.max_length)

\* the last space was at exactly 80% of max_length and the text was cut at
\* max_length
C20_Witness ==
    /\ Truncating
    /\ call.max_length > 0
    /\ 10 * LastSpaceWithin(CleanedExpanded(text), call.max_length) = 8 * call.max_length
    /\ Len(ret.val) = call.max_length

\* preprocess_for_tts was called with a max_length for which validate_text
\* accepts the text (as synthesize calls both, lines 105-120)
ValidatedPreprocess ==
    /\ call.op = "preprocess_for_tts"
    /\ validate_text(text, call.max_length, NoArg).valid

\* C25 (as claimed): text that validate_text accepts for a max_length is
\* never truncated by preprocess_for_tts called with the same max_length:
\* the result is the fully cleaned and abbreviation-expanded text.
C25_ValidNeverTruncated ==
    ValidatedPreprocess => ret.val = CleanedExpanded(text)

\* C25 (amended): validate_text bounds the cleaned text, before expansion.
\* The result is the cleaned and expanded text when that is no longer than
\* max_length; when expanding abbreviations has made it longer, the result
\* is that text cut at max_length, or at the last space before it when the
\* space's position is more than 80% of max_length.
C25_TruncatedWhenExpansionExceeds ==
    ValidatedPreprocess =>
        LET full == CleanedExpanded(text)
            last_space == LastSpaceWithin(full, call.max_length)
        IN /\ Len(clean_text(text)) <= call.max_length
           /\ Len(full) <= call.max_length => ret.val = full
           /\ Len(full) > call.max_length =>
                 /\ full # clean_text(text)
                 /\ Len(ret.val) <= call.max_length
                 /\ ret.val = IF last_space >= 0 /\ 10 * last_space > 8 * call.max_length
                              THEN SubSeq(full, 1, last_space)
                              ELSE SubSeq(full, 1, call.max_length)

\* an accepted text whose expansion is longer than max_length was cut back
\* to a word boundary
C25_Witness ==
    /\ ValidatedPreprocess
    /\ Len(CleanedExpanded(text)) > call.max_length
    /\ Len(ret.val) < call.max_length
    /\ ret.val # <<>>

====
